---- MODULE Spec2Model ----
(***************************************************************************)
(* Gensokyo Daily news fetcher (src/fetch_news.py): the relevance          *)
(* classifier, the WBI-signed ranking adapter, the THWiki direct-then-     *)
(* proxy adapter, and the reduce / merge / persist pipeline of main().     *)
(*                                                                         *)
(* Text is a sequence of characters, one string per character: an ASCII    *)
(* character is itself, any other character is "u" followed by its code    *)
(* point in hexadecimal ("u4e1c" is U+4E1C).                               *)
(***************************************************************************)
EXTENDS Integers, Sequences, FiniteSets, TLC

VARIABLES
    text,       \* classifier: the text handed to is_touhou_related
    nfrag,      \* classifier: number of fragments the text was built from
    verdict,    \* classifier: the value is_touhou_related returned
    cpc,        \* classifier: "input" while the text is built, "done" after the call
    wpc,        \* fetch_thwiki_api: "direct", "proxy", "done" or "raised"
    attempt,    \* fetch_thwiki_api: the loop variable of line 712
    calls,      \* fetch_thwiki_api: the network calls made so far, with their responses
    wresult,    \* fetch_thwiki_api: the list returned
    bpc,        \* fetch_bilibili_rank_api: "start", "keyed", "done" or "raised"
    rid,        \* fetch_bilibili_rank_api: the partition asked for
    navresp,    \* get_wbi_keys: the answer of the nav endpoint
    bkeys,      \* fetch_bilibili_rank_api: (img_key, sub_key) as get_wbi_keys returned them
    sent,       \* fetch_bilibili_rank_api: the requests sent to the ranking endpoint
    bresult,    \* fetch_bilibili_rank_api: the list returned
    pc,         \* main: "start", "fetched", "merged", "writing", "done" or "crashed"
    now,        \* the clock (seconds since the epoch) read by this run
    run,        \* number of the run of main in progress
    raw,        \* fetch_all_news: the items gathered per category, in fetch order
    fresh,      \* fetch_all_news: the value it returned in this run
    news,       \* main: news_data
    file,       \* DATA_FILE as it is on disk
    file0,      \* DATA_FILE as it was when this run of main began
    steps,      \* main: the steps this run has completed, in order
    err,        \* main: the exception that ended the run ("" when none)
    spc,        \* enc_wbi: "input" before the arguments are chosen, then "ready"
    sparams,    \* enc_wbi: the caller's dict params, as its items in insertion order
    simg,       \* enc_wbi: img_key
    ssub,       \* enc_wbi: sub_key
    stime,      \* enc_wbi: the value round(time.time()) gives (the clock is fixed)
    souts       \* enc_wbi: the calls made so far: the dict passed and what came back

cvars == <<text, nfrag, verdict, cpc>>

wvars == <<wpc, attempt, calls, wresult>>

bvars == <<bpc, rid, navresp, bkeys, sent, bresult>>

mvars == <<pc, now, run, raw, fresh, news, file, file0, steps, err>>

svars == <<spc, sparams, simg, ssub, stime, souts>>

vars == <<text, nfrag, verdict, cpc, wpc, attempt, calls, wresult,
          bpc, rid, navresp, bkeys, sent, bresult,
          pc, now, run, raw, fresh, news, file, file0, steps, err,
          spc, sparams, simg, ssub, stime, souts>>

----------------------------------------------------------------------------
\* Keyword rule set (src/fetch_news.py lines 94-196)

\* CORE_KEYWORDS, src/fetch_news.py lines 96-105: 21 terms, one character per element
CORE_KEYWORDS ==
  <<
    <<"u4e1c", "u65b9", "p", "r", "o", "j", "e", "c", "t">>,
    <<"u6771", "u65b9", "p", "r", "o", "j", "e", "c", "t">>,
    <<"t", "o", "u", "h", "o", "u", " ", "p", "r", "o", "j", "e", "c", "t">>,
    <<"t", "o", "u", "h", "o", "u">>,
    <<"u30c8", "u30a6", "u30db", "u30a6">>,
    <<"u3068", "u3046", "u307b", "u3046">>,
    <<"u5e7b", "u60f3", "u4e61">>,
    <<"u5e7b", "u60f3", "u90f7">>,
    <<"g", "e", "n", "s", "o", "k", "y", "o">>,
    <<"u535a", "u4e3d", "u795e", "u793e">>,
    <<"u535a", "u9e97", "u795e", "u793e">>,
    <<"h", "a", "k", "u", "r", "e", "i">>,
    <<"Z", "U", "N">>,
    <<"u4e0a", "u6d77", "u7231", "u4e3d", "u4e1d">>,
    <<"u4e0a", "u6d77", "u30a2", "u30ea", "u30b9", "u5e7b", "u6a02", "u56e3">>,
    <<"u4f8b", "u5927", "u796d">>,
    <<"r", "e", "i", "t", "a", "i", "s", "a", "i">>,
    <<"t", "h", "w", "i", "k", "i">>,
    <<"T", "H", "B", "W", "i", "k", "i">>,
    <<"u4e1c", "u65b9", "u5427">>,
    <<"u4e1c", "u65b9", "M", "M", "D">>
  >>

\* CHARACTER_KEYWORDS, src/fetch_news.py lines 108-137: 65 terms, one character per element
CHARACTER_KEYWORDS ==
  <<
    <<"u7075", "u68a6">>,
    <<"u970a", "u5922">>,
    <<"r", "e", "i", "m", "u">>,
    <<"u9b54", "u7406", "u6c99">>,
    <<"m", "a", "r", "i", "s", "a">>,
    <<"u54b2", "u591c">>,
    <<"s", "a", "k", "u", "y", "a">>,
    <<"u742a", "u9732", "u8bfa">>,
    <<"u30c1", "u30eb", "u30ce">>,
    <<"c", "i", "r", "n", "o">>,
    <<"u5996", "u68a6">>,
    <<"u5996", "u5922">>,
    <<"y", "o", "u", "m", "u">>,
    <<"u5e7d", "u5e7d", "u5b50">>,
    <<"y", "u", "y", "u", "k", "o">>,
    <<"u857e", "u7c73", "u8389", "u4e9a">>,
    <<"r", "e", "m", "i", "l", "i", "a">>,
    <<"u8299", "u5170", "u6735", "u9732">>,
    <<"f", "l", "a", "n", "d", "r", "e">>,
    <<"u5e15", "u79cb", "u8389">>,
    <<"p", "a", "t", "c", "h", "o", "u", "l", "i">>,
    <<"u5c04", "u547d", "u4e38", "u6587">>,
    <<"a", "y", "a", " ", "s", "h", "a", "m", "e", "i", "m", "a", "r", "u">>,
    <<"u6cb3", "u57ce", "u8377", "u53d6">>,
    <<"n", "i", "t", "o", "r", "i">>,
    <<"u516b", "u4e91", "u7d2b">>,
    <<"u516b", "u96f2", "u7d2b">>,
    <<"y", "u", "k", "a", "r", "i">>,
    <<"u85e4", "u539f", "u59b9", "u7ea2">>,
    <<"m", "o", "k", "o", "u">>,
    <<"u9b3c", "u4eba", "u6b63", "u90aa">>,
    <<"s", "e", "i", "j", "a">>,
    <<"u53e4", "u660e", "u5730", "u89c9">>,
    <<"u53e4", "u660e", "u5730", "u604b">>,
    <<"s", "a", "t", "o", "r", "i">>,
    <<"k", "o", "i", "s", "h", "i">>,
    <<"u98ce", "u89c1", "u5e7d", "u9999">>,
    <<"y", "u", "u", "k", "a">>,
    <<"u56db", "u5b63", "u6620", "u59ec">>,
    <<"e", "i", "k", "i">>,
    <<"u5c0f", "u91ce", "u585a", "u5c0f", "u753a">>,
    <<"k", "o", "m", "a", "c", "h", "i">>,
    <<"u56e0", "u5e61", "u5e1d">>,
    <<"t", "e", "w", "i">>,
    <<"u94c3", "u4ed9">>,
    <<"u9234", "u4ed9">>,
    <<"r", "e", "i", "s", "e", "n">>,
    <<"u6c38", "u7433">>,
    <<"e", "i", "r", "i", "n">>,
    <<"u8f89", "u591c">>,
    <<"u8f1d", "u591c">>,
    <<"k", "a", "g", "u", "y", "a">>,
    <<"u7ea2", "u7f8e", "u94c3">>,
    <<"m", "e", "i", "l", "i", "n", "g">>,
    <<"u7231", "u4e3d", "u4e1d">>,
    <<"a", "l", "i", "c", "e", " ", "m", "a", "r", "g", "a", "t", "r", "o", "i", "d">>,
    <<"u897f", "u884c", "u5bfa">>,
    <<"s", "a", "i", "g", "y", "o", "u", "j", "i">>,
    <<"u535a", "u4e3d">>,
    <<"u535a", "u9e97">>,
    <<"u516b", "u4e91", "u84dd">>,
    <<"u516b", "u96f2", "u85cd">>,
    <<"r", "a", "n">>,
    <<"u9732", "u5a1c", "u5207", "u9732", "u5fb7">>,
    <<"l", "u", "n", "a", " ", "c", "h", "i", "l", "d">>
  >>

\* GAME_KEYWORDS, src/fetch_news.py lines 140-162: 44 terms, one character per element
GAME_KEYWORDS ==
  <<
    <<"u7ea2", "u9b54", "u4e61">>,
    <<"u7d05", "u9b54", "u90f7">>,
    <<"u7ea2", "u9b54", "u9986">>,
    <<"u7d05", "u9b54", "u9928">>,
    <<"u5996", "u5996", "u68a6">>,
    <<"u5996", "u3005", "u5922">>,
    <<"u6c38", "u591c", "u6284">>,
    <<"u82b1", "u6620", "u585a">>,
    <<"u98ce", "u795e", "u5f55">>,
    <<"u98a8", "u795e", "u9332">>,
    <<"u5730", "u7075", "u6bbf">>,
    <<"u5730", "u970a", "u6bbf">>,
    <<"u661f", "u83b2", "u8239">>,
    <<"u661f", "u84ee", "u8239">>,
    <<"u795e", "u7075", "u5e99">>,
    <<"u795e", "u970a", "u5edf">>,
    <<"u8f89", "u9488", "u57ce">>,
    <<"u8f1d", "u91dd", "u57ce">>,
    <<"u7ec0", "u73e0", "u4f20">>,
    <<"u7d3a", "u73e0", "u4f1d">>,
    <<"u5929", "u7a7a", "u748b">>,
    <<"u9b3c", "u5f62", "u517d">>,
    <<"u9b3c", "u5f62", "u7363">>,
    <<"u8679", "u9f99", "u6d1e">>,
    <<"u8679", "u9f8d", "u6d1e">>,
    <<"u517d", "u738b", "u56ed">>,
    <<"u7363", "u738b", "u5712">>,
    <<"u732e", "u534e", "u6284">>,
    <<"u521a", "u6b32", "u5f02", "u95fb">>,
    <<"u4e1c", "u65b9", "u7ea2", "u9b54", "u4e61">>,
    <<"u4e1c", "u65b9", "u5996", "u5996", "u68a6">>,
    <<"u4e1c", "u65b9", "u6c38", "u591c", "u6284">>,
    <<"u4e1c", "u65b9", "u98ce", "u795e", "u5f55">>,
    <<"u4e1c", "u65b9", "u5730", "u7075", "u6bbf">>,
    <<"u4e1c", "u65b9", "u661f", "u83b2", "u8239">>,
    <<"u4e1c", "u65b9", "u795e", "u7075", "u5e99">>,
    <<"u4e1c", "u65b9", "u8f89", "u9488", "u57ce">>,
    <<"u4e1c", "u65b9", "u7ec0", "u73e0", "u4f20">>,
    <<"u4e1c", "u65b9", "u5929", "u7a7a", "u748b">>,
    <<"u4e1c", "u65b9", "u9b3c", "u5f62", "u517d">>,
    <<"u4e1c", "u65b9", "u8679", "u9f99", "u6d1e">>,
    <<"u4e1c", "u65b9", "u517d", "u738b", "u56ed">>,
    <<"u4e1c", "u65b9", "u732e", "u534e", "u6284">>,
    <<"u4e1c", "u65b9", "u521a", "u6b32", "u5f02", "u95fb">>
  >>

\* MUSIC_KEYWORDS, src/fetch_news.py lines 165-171: 11 terms, one character per element
MUSIC_KEYWORDS ==
  <<
    <<"u4e1c", "u65b9", "a", "r", "r", "a", "n", "g", "e">>,
    <<"u4e1c", "u65b9", "u7f16", "u66f2">>,
    <<"u4e1c", "u65b9", "u540c", "u4eba", "u97f3", "u4e50">>,
    <<"U", ".", "N", ".", "u30aa", "u30fc", "u30a8", "u30f3", "u306f", "u5f7c", "u5973", "u306a", "u306e", "u304b">>,
    <<"u30cd", "u30af", "u30ed", "u30d5", "u30a1", "u30f3", "u30bf", "u30b8", "u30a2">>,
    <<"b", "a", "d", " ", "a", "p", "p", "l", "e">>,
    <<"u8272", "u306f", "u5302", "u3078", "u3069", "u6563", "u308a", "u306c", "u308b", "u3092">>,
    <<"u4e1c", "u65b9", "v", "o", "c", "a", "l">>,
    <<"u4e1c", "u65b9", "r", "e", "m", "i", "x">>,
    <<"u79d8", "u5c01", "u4ff1", "u4e50", "u90e8">>,
    <<"u79d8", "u5c01", "u5036", "u697d", "u90e8">>
  >>

\* BLACKLIST_KEYWORDS, src/fetch_news.py lines 176-193: 49 terms, one character per element
BLACKLIST_KEYWORDS ==
  <<
    <<"u539f", "u795e">>,
    <<"G", "e", "n", "s", "h", "i", "n">>,
    <<"u7c73", "u54c8", "u6e38">>,
    <<"m", "i", "H", "o", "Y", "o">>,
    <<"u63d0", "u74e6", "u7279">>,
    <<"u5d29", "u574f">>,
    <<"H", "o", "n", "k", "a", "i">>,
    <<"u661f", "u7a79", "u94c1", "u9053">>,
    <<"S", "t", "a", "r", "R", "a", "i", "l">>,
    <<"S", "t", "a", "r", " ", "R", "a", "i", "l">>,
    <<"u7edd", "u533a", "u96f6">>,
    <<"Z", "Z", "Z">>,
    <<"u660e", "u65e5", "u65b9", "u821f">>,
    <<"A", "r", "k", "n", "i", "g", "h", "t", "s">>,
    <<"u9e70", "u89d2">>,
    <<"H", "y", "p", "e", "r", "g", "r", "y", "p", "h">>,
    <<"u6cf0", "u62c9", "u5927", "u9646">>,
    <<"u78a7", "u84dd", "u6863", "u6848">>,
    <<"B", "l", "u", "e", "A", "r", "c", "h", "i", "v", "e">>,
    <<"B", "l", "u", "e", " ", "A", "r", "c", "h", "i", "v", "e">>,
    <<"u851a", "u84dd", "u6863", "u6848">>,
    <<"u738b", "u8005", "u8363", "u8000">>,
    <<"L", "O", "L">>,
    <<"u82f1", "u96c4", "u8054", "u76df">>,
    <<"u6c38", "u52ab", "u65e0", "u95f4">>,
    <<"N", "a", "r", "a", "k", "a">>,
    <<"u7b2c", "u4e94", "u4eba", "u683c">>,
    <<"u9634", "u9633", "u5e08">>,
    <<"u8d5b", "u9a6c", "u5a18">>,
    <<"F", "a", "t", "e">>,
    <<"F", "G", "O">>,
    <<"F", "a", "t", "e", "/", "G", "r", "a", "n", "d", " ", "O", "r", "d", "e", "r">>,
    <<"u8d85", "u65f6", "u7a7a", "u8f89", "u591c", "u59ec">>,
    <<"u8d85", "u6642", "u7a7a", "u8f1d", "u591c", "u59eb">>,
    <<"H", "o", "l", "o", "l", "i", "v", "e">>,
    <<"N", "i", "j", "i", "s", "a", "n", "j", "i">>,
    <<"A", "s", "o", "u", "l">>,
    <<"u5609", "u7136">>,
    <<"u8d1d", "u62c9">>,
    <<"u521d", "u97f3">>,
    <<"M", "i", "k", "u">>,
    <<"u6d1b", "u5929", "u4f9d">>,
    <<"V", "o", "c", "a", "l", "o", "i", "d">>,
    <<"u4e92", "u52a8", "u89c6", "u9891">>,
    <<"u62bd", "u5956">>,
    <<"u6d4b", "u8bd5">>,
    <<"u4f5c", "u4e1a">>,
    <<"u8bfe", "u5802">>,
    <<"u6559", "u7a0b">>
  >>

\* the positive list with the bare root term added to it
TOUHOU_KEYWORDS_WithRoot ==
  CORE_KEYWORDS \o CHARACTER_KEYWORDS \o GAME_KEYWORDS \o MUSIC_KEYWORDS
    \o << <<"u4e1c", "u65b9">>, <<"u6771", "u65b9">> >>

\* TOUHOU_KEYWORDS, line 196: the four positive lists concatenated
TOUHOU_KEYWORDS == CORE_KEYWORDS \o CHARACTER_KEYWORDS \o GAME_KEYWORDS \o MUSIC_KEYWORDS

----------------------------------------------------------------------------
\* str.lower() and the substring test `a in b`

UpperAZ ==
  <<"A", "B", "C", "D", "E", "F", "G", "H", "I", "J", "K", "L", "M",
    "N", "O", "P", "Q", "R", "S", "T", "U", "V", "W", "X", "Y", "Z">>

LowerAZ ==
  <<"a", "b", "c", "d", "e", "f", "g", "h", "i", "j", "k", "l", "m",
    "n", "o", "p", "q", "r", "s", "t", "u", "v", "w", "x", "y", "z">>

\* one character of str.lower(): A-Z fold, every other character of the
\* rule set and of the texts (CJK, kana, digits, punctuation) has no case
LowerChar(c) ==
  IF \E i \in 1..26 : UpperAZ[i] = c
  THEN LowerAZ[CHOOSE i \in 1..26 : UpperAZ[i] = c]
  ELSE c

Lower(s) == [i \in 1..Len(s) |-> LowerChar(s[i])]

\* Python's `kw in s` on strings: kw occurs in s as a contiguous substring
Contains(s, kw) ==
  \E i \in 1..(Len(s) - Len(kw) + 1) : SubSeq(s, i, i + Len(kw) - 1) = kw

\* the rule lists with .lower() applied, as the loops of lines 262-263 and
\* 275-276 apply it to every term
BlacklistLower == [k \in 1..Len(BLACKLIST_KEYWORDS) |-> Lower(BLACKLIST_KEYWORDS[k])]

TouhouLower == [k \in 1..Len(TOUHOU_KEYWORDS) |-> Lower(TOUHOU_KEYWORDS[k])]

----------------------------------------------------------------------------
\* is_touhou_related (lines 252-279)

Root_zh == <<"u4e1c", "u65b9">>
Root_jp == <<"u6771", "u65b9">>
Token_en == <<"t", "o", "u", "h", "o", "u">>

\* the exemption never granted
Exempt_Never(text_lower) == FALSE

\* line 266: the exemption test, made on the lowercased text
Exempt(text_lower) ==
  \/ Contains(text_lower, Root_zh)
  \/ Contains(text_lower, Root_jp)
  \/ Contains(text_lower, Token_en)

\* lines 262-271: the loop returns False at the first blacklist term found
\* when line 266 does not hold; line 266 does not depend on the term, so
\* the loop rejects iff some term occurs and the text is not exempt
BlacklistVeto(text_lower) ==
  /\ \E k \in 1..Len(BlacklistLower) : Contains(text_lower, BlacklistLower[k])
  /\ ~Exempt(text_lower)

\* lines 275-277
PositiveMatch(text_lower) ==
  \E k \in 1..Len(TouhouLower) : Contains(text_lower, TouhouLower[k])

\* the positive match made before the veto
is_touhou_related_PositiveFirst(t) ==
  IF t = <<>> THEN FALSE
  ELSE LET text_lower == Lower(t)
       IN  IF PositiveMatch(text_lower) THEN TRUE
           ELSE FALSE

is_touhou_related(t) ==
  IF t = <<>> THEN FALSE                         \* lines 256-257
  ELSE LET text_lower == Lower(t)                \* line 258
       IN  IF BlacklistVeto(text_lower) THEN FALSE
           ELSE PositiveMatch(text_lower)        \* lines 275-279

----------------------------------------------------------------------------
\* Texts the classifier is called on: concatenations of up to MaxFragments
\* fragments

MaxFragments == 3

Fragments ==
  {
    <<"u539f", "u795e">>,  \* a blacklist term (line 178)
    <<"G", "E", "N", "S", "H", "I", "N">>,  \* blacklist term "Genshin" in another case
    <<"u4e1c", "u65b9">>,  \* the two-character root term, simplified script
    <<"u6771", "u65b9">>,  \* the root term, traditional script
    <<"T", "o", "u", "h", "o", "u">>,  \* the english token, capitalised
    <<"Z", "U", "N">>,  \* the creator's handle (a core keyword, line 102)
    <<"R", "e", "i", "m", "u">>,  \* a character keyword (line 109), capitalised
    <<"u7ea2", "u9b54", "u4e61">>,  \* a work keyword (line 141)
    <<"b", "a", "d", " ", "a", "p", "p", "l", "e">>,  \* a music keyword (line 168)
    <<"u8d85", "u65f6", "u7a7a", "u8f89", "u591c", "u59ec">>,  \* a blacklist term (line 185) that contains the character keyword of line 130
    <<" ", "x", " ">>  \* text that is no term at all
  }

ClassifyInit ==
  /\ text = <<>>
  /\ nfrag = 0
  /\ verdict = FALSE
  /\ cpc = "input"

\* the caller assembles the text (title + " " + desc, lines 416, 622, 862)
AddFragment ==
  /\ cpc = "input"
  /\ nfrag < MaxFragments
  /\ \E f \in Fragments : text' = text \o f
  /\ nfrag' = nfrag + 1
  /\ UNCHANGED <<verdict, cpc>>
  /\ UNCHANGED <<wvars, bvars, mvars, svars>>

\* the call is_touhou_related(text)
Classify ==
  /\ cpc = "input"
  /\ verdict' = is_touhou_related(text)
  /\ cpc' = "done"
  /\ UNCHANGED <<text, nfrag>>
  /\ UNCHANGED <<wvars, bvars, mvars, svars>>

ClassifyNext == AddFragment \/ Classify


----------------------------------------------------------------------------
\* The `published` strings of items.  An ISO-8601 string is modelled by its
\* wall-clock part `local` (seconds; the fixed-width text YYYY-MM-DDTHH:MM:SS
\* orders as this number does) and the text `suffix` after it; any other
\* value by its kind alone.

Iso(local, suffix) == [k |-> "iso", local |-> local, suffix |-> suffix]

\* a string that is no date ("yesterday")
BadDate == [k |-> "bad", local |-> 0, suffix |-> ""]

\* the key is absent from the item
NoDate == [k |-> "absent", local |-> 0, suffix |-> ""]

\* a JSON value that is no string (null, a number)
NonStringDate == [k |-> "nonstring", local |-> 0, suffix |-> ""]

\* An item (the wire shape of lines 873-884).  `title` stands for the
\* fields that no step of the pipeline reads (title, link, summary, image,
\* source, fetched_at).  An entry of a snapshot read from disk may be no
\* JSON object at all (shape "other"), and its "id" may be absent, null or
\* an unhashable value (idk).
Item(id, priority, published, title) ==
  [shape |-> "dict", idk |-> "str", id |-> id, priority |-> priority,
   published |-> published, title |-> title]

----------------------------------------------------------------------------
\* fetch_thwiki_api (lines 652-746)

\* the instant of the wiki edits the responses carry
WikiEditTime == 2999000

\* entries of query.recentchanges: an edit by a person, an edit by a bot,
\* an entry without "title"
RcPool ==
  { [rcid |-> 1, bot |-> FALSE, titled |-> TRUE, timestamp |-> Iso(WikiEditTime, "Z")],
    [rcid |-> 2, bot |-> TRUE, titled |-> TRUE, timestamp |-> Iso(WikiEditTime, "Z")],
    [rcid |-> 3, bot |-> FALSE, titled |-> FALSE, timestamp |-> Iso(WikiEditTime, "Z")] }

MaxRc == 1

RcLists == UNION {[1..n -> RcPool] : n \in 0..MaxRc}

\* the decoded API answer: something that is no JSON object, or an object
\* whose query.recentchanges is the list rc
DataSet ==
  {[k |-> "notdict", rc |-> <<>>]} \cup {[k |-> "dict", rc |-> l] : l \in RcLists}

NoData == [k |-> "none", rc |-> <<>>]

\* status 0: requests.get raised (timeout, connection error)
DirectResponses ==
  {[status |-> 0, body |-> "none", data |-> NoData],
   [status |-> 503, body |-> "none", data |-> NoData],
   [status |-> 200, body |-> "notjson", data |-> NoData]}
  \cup {[status |-> 200, body |-> "json", data |-> d] : d \in DataSet}

\* the relay wraps the answer: {"contents": "<the API answer as text>"}
ProxyResponses ==
  {[status |-> 0, body |-> "none", data |-> NoData],
   [status |-> 503, body |-> "none", data |-> NoData],
   [status |-> 200, body |-> "notjson", data |-> NoData],
   [status |-> 200, body |-> "notdict", data |-> NoData],
   [status |-> 200, body |-> "nocontents", data |-> NoData],
   [status |-> 200, body |-> "contents_notjson", data |-> NoData]}
  \cup {[status |-> 200, body |-> "contents", data |-> d] : d \in DataSet}

\* lines 673-684: the item built from one entry
WikiItem(rc) ==
  Item(<<"thwiki", rc.rcid>>, 2, rc.timestamp, "wiki")

\* process_data, lines 660-685: the items, or an exception (data.get on a
\* value that is no dict, rc["title"] on an entry without it)
process_data(data) ==
  IF data.k # "dict" THEN [exc |-> TRUE, items |-> <<>>]
  ELSE IF \E i \in 1..Len(data.rc) : ~data.rc[i].titled
       THEN [exc |-> TRUE, items |-> <<>>]
       ELSE LET human(rc) == ~rc.bot                      \* lines 671-672
                kept == SelectSeq(data.rc, human)
            IN  [exc |-> FALSE, items |-> [i \in 1..Len(kept) |-> WikiItem(kept[i])]]

\* the try body of lines 690-703: "return" with items, "fall" through to
\* the proxy phase, or "exc" (an exception raised inside the try)
DirectTry(resp) ==
  IF resp.status = 0 THEN [k |-> "exc", items |-> <<>>]
  ELSE IF resp.status # 200 THEN [k |-> "fall", items |-> <<>>]
  ELSE IF resp.body # "json" THEN [k |-> "exc", items |-> <<>>]       \* resp.json()
  ELSE LET r == process_data(resp.data)
       IN  IF r.exc THEN [k |-> "exc", items |-> <<>>]
           ELSE IF r.items # <<>> THEN [k |-> "return", items |-> r.items]
           ELSE [k |-> "fall", items |-> <<>>]

\* the try body of lines 713-736: "return", "continue" (lines 717-726) or "exc"
ProxyTry(resp) ==
  IF resp.status = 0 THEN [k |-> "exc", items |-> <<>>]
  ELSE IF resp.status # 200 THEN [k |-> "continue", items |-> <<>>]
  ELSE IF resp.body \in {"notjson", "notdict"} THEN [k |-> "exc", items |-> <<>>]
  ELSE IF resp.body = "nocontents" THEN [k |-> "continue", items |-> <<>>]
  ELSE IF resp.body = "contents_notjson" THEN [k |-> "exc", items |-> <<>>]  \* json.loads
  ELSE LET r == process_data(resp.data)
       IN  IF r.exc THEN [k |-> "exc", items |-> <<>>]
           ELSE [k |-> "return", items |-> r.items]                  \* lines 731-736

\* `except Exception` of lines 704 and 738 catches every exception of the try
DirectCatches == TRUE

ProxyCatches == TRUE

max_retries == 3

WikiInit ==
  /\ wpc = "direct"
  /\ attempt = 0
  /\ calls = <<>>
  /\ wresult = <<>>

\* lines 687-705: the direct call
WikiDirect ==
  /\ wpc = "direct"
  /\ \E resp \in DirectResponses :
       LET t == DirectTry(resp)
       IN  /\ calls' = Append(calls, [via |-> "Direct", n |-> 0, resp |-> resp])
           /\ IF t.k = "return"
              THEN /\ wpc' = "done"
                   /\ wresult' = t.items
                   /\ UNCHANGED attempt
              ELSE IF t.k = "exc" /\ ~DirectCatches
              THEN /\ wpc' = "raised"
                   /\ UNCHANGED <<attempt, wresult>>
              ELSE /\ wpc' = "proxy"              \* line 712: range(1, max_retries + 1)
                   /\ attempt' = 1
                   /\ UNCHANGED wresult
  /\ UNCHANGED <<cvars, bvars, mvars, svars>>

\* the loop left after its first iteration
AfterAttempt_NoRetry(a) == [pc |-> "done", attempt |-> a]

\* where the loop of line 712 goes after iteration `a` did not return
AfterAttempt(a) ==
  IF a < max_retries THEN [pc |-> "proxy", attempt |-> a + 1]
  ELSE [pc |-> "done", attempt |-> a]                 \* line 746, line 745

\* lines 712-745: one iteration of the proxy loop
WikiProxy ==
  /\ wpc = "proxy"
  /\ \E resp \in ProxyResponses :
       LET t == ProxyTry(resp)
           nxt == AfterAttempt(attempt)
       IN  /\ calls' = Append(calls, [via |-> "Proxy", n |-> attempt, resp |-> resp])
           /\ IF t.k = "return"
              THEN /\ wpc' = "done"
                   /\ wresult' = t.items
                   /\ UNCHANGED attempt
              ELSE IF t.k = "exc" /\ ~ProxyCatches
              THEN /\ wpc' = "raised"
                   /\ UNCHANGED <<attempt, wresult>>
              ELSE /\ wpc' = nxt.pc               \* lines 720, 726, 740-745
                   /\ attempt' = nxt.attempt
                   /\ wresult' = <<>>
  /\ UNCHANGED <<cvars, bvars, mvars, svars>>

WikiNext == WikiDirect \/ WikiProxy

----------------------------------------------------------------------------
\* WBI signing (lines 36-75)

mixin_key_enc_tab ==
  << 46, 47, 18, 2, 53, 8, 23, 32, 15, 50, 10, 31, 58, 3, 45, 35, 27, 43, 5, 49,
     33, 9, 42, 19, 29, 28, 14, 39, 12, 38, 41, 13, 37, 48, 7, 16, 24, 55, 40,
     61, 26, 17, 0, 1, 60, 51, 30, 4, 22, 25, 54, 21, 56, 59, 6, 63, 57, 62, 11,
     36, 20, 34, 44, 52 >>

\* the first 32 characters of orig, not shuffled
get_mixin_key_Unshuffled(orig) ==
  [exc |-> Len(orig) < 64, key |-> SubSeq(orig, 1, 32)]

\* get_mixin_key, line 44: orig[i] for every entry of the table (IndexError
\* when an entry is no index of orig), then the first 32 characters
get_mixin_key(orig) ==
  IF \E j \in 1..Len(mixin_key_enc_tab) : mixin_key_enc_tab[j] >= Len(orig)
  THEN [exc |-> TRUE, key |-> <<>>]
  ELSE [exc |-> FALSE,
        key |-> SubSeq([j \in 1..Len(mixin_key_enc_tab) |-> orig[mixin_key_enc_tab[j] + 1]],
                       1, 32)]

\* A text is the tuple of its characters.  The characters that occur in
\* parameter names and values, in code-point order
CharOrder ==
  << " ", "%", "&", "+", "-", ".", "/", "0", "1", "2", "3", "4", "5",
     "6", "7", "8", "9", "=", "A", "B", "C", "D", "E", "F", "G", "H",
     "I", "J", "K", "L", "M", "N", "O", "P", "Q", "R", "S", "T", "U",
     "V", "W", "X", "Y", "Z", "_", "a", "b", "c", "d", "e", "f", "g",
     "h", "i", "j", "k", "l", "m", "n", "o", "p", "q", "r", "s", "t",
     "u", "v", "w", "x", "y", "z", "~" >>

Ord(c) == CHOOSE i \in 1..Len(CharOrder) : CharOrder[i] = c

\* a < b for two texts, as Python compares str
StrLess(a, b) ==
  \E k \in 0..(IF Len(a) < Len(b) THEN Len(a) ELSE Len(b)) :
    /\ \A j \in 1..k : a[j] = b[j]
    /\ \/ k = Len(a) /\ k < Len(b)
       \/ k < Len(a) /\ k < Len(b) /\ Ord(a[k + 1]) < Ord(b[k + 1])

\* a parameter value: an int or a str
IntValue(n) == [int |-> TRUE, n |-> n, s |-> <<>>]

StrValue(t) == [int |-> FALSE, n |-> 0, s |-> t]

DigitChars == <<"0", "1", "2", "3", "4", "5", "6", "7", "8", "9">>

RECURSIVE DecimalText(_)
DecimalText(n) ==
  IF n < 10 THEN <<DigitChars[n + 1]>>
  ELSE Append(DecimalText(n \div 10), DigitChars[(n % 10) + 1])

\* str(v), which urlencode applies to a value that is no str
str(v) == IF v.int THEN DecimalText(v.n) ELSE v.s

\* quote_plus, which urlencode (line 54) applies to names and values:
\* letters, digits and _ . - ~ stay, a space becomes +, any other character
\* becomes % and its two hex digits
Unreserved ==
  {CharOrder[i] : i \in 1..Len(CharOrder)} \ {" ", "%", "&", "+", "/", "="}

QuoteChar(c) ==
  IF c \in Unreserved THEN <<c>>
  ELSE IF c = " " THEN <<"+">>
  ELSE IF c = "%" THEN <<"%", "2", "5">>
  ELSE IF c = "&" THEN <<"%", "2", "6">>
  ELSE IF c = "+" THEN <<"%", "2", "B">>
  ELSE IF c = "/" THEN <<"%", "2", "F">>
  ELSE <<"%", "3", "D">>

RECURSIVE quote_plus(_)
quote_plus(t) ==
  IF t = <<>> THEN <<>> ELSE QuoteChar(Head(t)) \o quote_plus(Tail(t))

\* A dict is the sequence of its items <<name, value>> in insertion order,
\* no name twice.
HasKey(d, k) == \E i \in 1..Len(d) : d[i][1] = k

\* d[k] = v: the value of an existing name is replaced where it stands, a
\* new name is added at the end
SetItem(d, k, v) ==
  IF HasKey(d, k) THEN [i \in 1..Len(d) |-> IF d[i][1] = k THEN <<k, v>> ELSE d[i]]
  ELSE Append(d, <<k, v>>)

\* the items left in insertion order
SortedItems_AsInserted(d) == d

\* line 52, dict(sorted(params.items())): the items in ascending order of
\* their names
SortedItems(d) ==
  LET pos(i) == 1 + Cardinality({j \in 1..Len(d) : StrLess(d[j][1], d[i][1])})
  IN  [r \in 1..Len(d) |-> d[CHOOSE i \in 1..Len(d) : pos(i) = r]]

\* line 54, urlencode: name=value joined by &
RECURSIVE urlencode(_)
urlencode(d) ==
  IF d = <<>> THEN <<>>
  ELSE LET pair == quote_plus(d[1][1]) \o <<"=">> \o quote_plus(str(d[1][2]))
       IN  IF Len(d) = 1 THEN pair ELSE pair \o <<"&">> \o urlencode(Tail(d))

\* line 56, hashlib.md5(...).hexdigest(): the digest is kept symbolic, as a
\* text that names the text digested
hexdigest(t) == <<"md5">> \o t

K_wts == <<"w", "t", "s">>

K_w_rid == <<"w", "_", "r", "i", "d">>

\* enc_wbi, lines 46-58, with round(time.time()) = curr_time.  `arg` is the
\* caller's dict as the call leaves it (line 50 adds wts to it), `params`
\* the dict returned.
enc_wbi(params, img_key, sub_key, curr_time) ==
  LET mk == get_mixin_key(img_key \o sub_key)                       \* line 48
      arg == SetItem(params, K_wts, IntValue(curr_time))            \* line 50
      sorted == SortedItems(arg)                                    \* line 52
      query == urlencode(sorted)                                    \* line 54
      w_rid == hexdigest(query \o mk.key)                           \* line 56
  IN  IF mk.exc
      THEN [exc |-> TRUE, mixin_key |-> <<>>, query |-> <<>>, w_rid |-> <<>>,
            params |-> <<>>, arg |-> params]
      ELSE [exc |-> FALSE, mixin_key |-> mk.key, query |-> query, w_rid |-> w_rid,
            params |-> SetItem(sorted, K_w_rid, StrValue(w_rid)),   \* lines 57-58
            arg |-> arg]

\* text after the last "/" (rsplit('/', 1)[1]: IndexError without a "/")
HasSlash(u) == \E i \in 1..Len(u) : u[i] = "/"

AfterLastSlash(u) ==
  LET i == CHOOSE i \in 1..Len(u) : u[i] = "/" /\ \A j \in (i + 1)..Len(u) : u[j] # "/"
  IN  SubSeq(u, i + 1, Len(u))

\* text before the first "." (split('.')[0])
BeforeFirstDot(n) ==
  IF \E i \in 1..Len(n) : n[i] = "."
  THEN LET i == CHOOSE i \in 1..Len(n) : n[i] = "." /\ \A j \in 1..(i - 1) : n[j] # "."
       IN  SubSeq(n, 1, i - 1)
  ELSE n

NoKeys == [none |-> TRUE, img |-> <<>>, sub |-> <<>>]

\* get_wbi_keys, lines 60-75: every exception of the try gives (None, None)
get_wbi_keys(resp) ==
  IF resp.k # "ok" THEN NoKeys                    \* lines 63-69 raised
  ELSE IF ~HasSlash(resp.img_url) \/ ~HasSlash(resp.sub_url) THEN NoKeys
  ELSE [none |-> FALSE,
        img |-> BeforeFirstDot(AfterLastSlash(resp.img_url)),       \* line 70
        sub |-> BeforeFirstDot(AfterLastSlash(resp.sub_url))]       \* line 71

----------------------------------------------------------------------------
\* fetch_bilibili_rank_api (lines 354-435)

KeyOfLength(n, c) == [i \in 1..n |-> c]

WbiUrl(name) ==
  <<"h", "t", "t", "p", "s", ":", "/", "/", "i", "/", "w", "b", "i", "/">>
    \o name \o <<".", "p", "n", "g">>

\* the img_url / sub_url values of the nav answer: a 32-character name, an
\* empty name, names that are too short or too long, and a value without
\* any "/"
UrlPool(c) ==
  { WbiUrl(KeyOfLength(32, c)),
    WbiUrl(<<>>),
    WbiUrl(KeyOfLength(3, c)),
    WbiUrl(KeyOfLength(31, c)),
    WbiUrl(KeyOfLength(33, c)),
    <<"n", "o", "n", "e">> }

NoUrl == <<>>

\* the answers of the nav endpoint: requests.get raised, a status >= 400
\* (raise_for_status), a body that is no JSON, JSON without data.wbi_img,
\* JSON with the two URLs
NavResponses ==
  {[k |-> x, img_url |-> NoUrl, sub_url |-> NoUrl] :
      x \in {"exception", "http_error", "notjson", "nodata"}}
  \cup {[k |-> "ok", img_url |-> i, sub_url |-> u] : i \in UrlPool("a"), u \in UrlPool("b")}

\* BILIBILI_PARTITIONS, lines 26-31
PartitionRids == {25, 24, 28, 17}

\* the values round(time.time()) takes at line 49
SignTimes == {1700000000, 1700000001}

\* entries of data.list of the ranking answer: title and desc
VideoPool ==
  { [bvid |-> 1, titled |-> TRUE, words |-> <<"T", "o", "u", "h", "o", "u">>],
    [bvid |-> 2, titled |-> TRUE, words |-> <<"G", "e", "n", "s", "h", "i", "n">>],
    [bvid |-> 3, titled |-> FALSE, words |-> <<>>] }

MaxVideos == 1

VideoLists == UNION {[1..n -> VideoPool] : n \in 0..MaxVideos}

NoVideos == <<>>

RankResponses ==
  {[k |-> x, list |-> NoVideos] : x \in {"exception", "http_error", "notjson", "refused"}}
  \cup {[k |-> "ok", list |-> l] : l \in VideoLists}

\* lines 420-431: the item built from one entry
RankItem(v, t) ==
  Item(<<"bilibili", v.bvid>>, 1, Iso(t, ".000001+00:00"), "rank")

\* lines 394-435: the answer turned into items; every exception of the try
\* (requests.get, resp.json(), v["title"]) gives the empty list
RankItems(resp, t) ==
  IF resp.k # "ok" THEN <<>>                                   \* lines 398-406, 433-435
  ELSE LET first15 == SubSeq(resp.list, 1, IF Len(resp.list) < 15 THEN Len(resp.list) ELSE 15)
       IN  IF \E i \in 1..Len(first15) : ~first15[i].titled THEN <<>>
           ELSE LET related(v) == is_touhou_related(v.words)   \* line 417
                    kept == SelectSeq(first15, related)
                IN  [i \in 1..Len(kept) |-> RankItem(kept[i], t)]

\* lines 365-369: params
RankParams(r) ==
  << <<(<<"r", "i", "d">>), IntValue(r)>>,
     <<(<<"t", "y", "p", "e">>), StrValue(<<"a", "l", "l">>)>> >>

\* line 360: `if not img_key` holds for None and for the empty string
KeyCheckFails(keys) == keys.none \/ keys.img = <<>>

BiliInit ==
  /\ bpc = "start"
  /\ rid = 0
  /\ navresp = [k |-> "none", img_url |-> NoUrl, sub_url |-> NoUrl]
  /\ bkeys = NoKeys
  /\ sent = <<>>
  /\ bresult = <<>>

\* line 359: the call get_wbi_keys()
BiliGetKeys ==
  /\ bpc = "start"
  /\ \E r \in PartitionRids, resp \in NavResponses :
       /\ rid' = r
       /\ navresp' = resp
       /\ bkeys' = get_wbi_keys(resp)
  /\ bpc' = "keyed"
  /\ UNCHANGED <<sent, bresult>>
  /\ UNCHANGED <<cvars, wvars, mvars, svars>>

\* lines 360-362: the source is skipped
BiliSkip ==
  /\ bpc = "keyed"
  /\ KeyCheckFails(bkeys)
  /\ bpc' = "done"
  /\ bresult' = <<>>
  /\ UNCHANGED <<rid, navresp, bkeys, sent>>
  /\ UNCHANGED <<cvars, wvars, mvars, svars>>

\* lines 364-372: signing; get_mixin_key's IndexError is raised at line 372,
\* outside any try
BiliSignRaises ==
  /\ bpc = "keyed"
  /\ ~KeyCheckFails(bkeys)
  /\ \E t \in SignTimes :
       enc_wbi(RankParams(rid), bkeys.img, bkeys.sub, t).exc
  /\ bpc' = "raised"
  /\ UNCHANGED <<rid, navresp, bkeys, sent, bresult>>
  /\ UNCHANGED <<cvars, wvars, mvars, svars>>

\* lines 364-435: signing, the request to the ranking endpoint, its answer
BiliRequest ==
  /\ bpc = "keyed"
  /\ ~KeyCheckFails(bkeys)
  /\ \E t \in SignTimes, resp \in RankResponses :
       LET signed == enc_wbi(RankParams(rid), bkeys.img, bkeys.sub, t)
       IN  /\ ~signed.exc
           /\ sent' = Append(sent, [query |-> signed.query, w_rid |-> signed.w_rid])
           /\ bresult' = RankItems(resp, t)
  /\ bpc' = "done"
  /\ UNCHANGED <<rid, navresp, bkeys>>
  /\ UNCHANGED <<cvars, wvars, mvars, svars>>

BiliNext == BiliGetKeys \/ BiliSkip \/ BiliSignRaises \/ BiliRequest

----------------------------------------------------------------------------
\* Calls of enc_wbi (lines 46-58) on any arguments, the clock fixed

\* items a caller puts into params: those of lines 366-367, and a value
\* with characters that urlencode rewrites
ParamPool ==
  { <<(<<"r", "i", "d">>), IntValue(25)>>,
    <<(<<"t", "y", "p", "e">>), StrValue(<<"a", "l", "l">>)>>,
    <<(<<"k", "e", "y", "w", "o", "r", "d">>), StrValue(<<"a", " ", "b", "&", "c">>)>> }

MaxParams == 3

\* the dicts of up to MaxParams of these items, in every insertion order
ParamDicts ==
  UNION {{d \in [1..n -> ParamPool] : \A i, j \in 1..n : i # j => d[i] # d[j]} :
           n \in 0..MaxParams}

\* two key names of 32 characters, no character twice in the two
IMG_DISTINCT ==
  <<"0", "1", "2", "3", "4", "5", "6", "7", "8", "9", "a", "b", "c", "d", "e",
    "f", "g", "h", "i", "j", "k", "l", "m", "n", "o", "p", "q", "r", "s", "t",
    "u", "v">>

SUB_DISTINCT ==
  <<"w", "x", "y", "z", "A", "B", "C", "D", "E", "F", "G", "H", "I", "J", "K",
    "L", "M", "N", "O", "P", "Q", "R", "S", "T", "U", "V", "W", "X", "Y", "Z",
    "-", "_">>

\* two key names of 32 hex digits
IMG_HEX ==
  <<"7", "c", "d", "0", "8", "4", "9", "4", "1", "3", "3", "8", "4", "8", "4",
    "a", "a", "e", "1", "a", "d", "9", "4", "2", "5", "b", "8", "4", "0", "7",
    "7", "c">>

SUB_HEX ==
  <<"4", "9", "3", "2", "c", "a", "f", "f", "0", "f", "f", "7", "4", "6", "e",
    "a", "b", "6", "f", "0", "1", "b", "f", "0", "8", "b", "7", "0", "a", "c",
    "4", "5">>

\* key names as the nav endpoint gives them: 32 characters that all differ,
\* 32 hex digits, and names one character short or long
ImgKeys ==
  { IMG_DISTINCT,
    IMG_HEX,
    SubSeq(IMG_DISTINCT, 1, 31) }

SubKeys ==
  { SUB_DISTINCT,
    SUB_HEX,
    SUB_DISTINCT \o <<"~">> }

MaxCalls == 2

SignInit ==
  /\ spc = "input"
  /\ sparams = <<>>
  /\ simg = <<>>
  /\ ssub = <<>>
  /\ stime = 0
  /\ souts = <<>>

\* the caller builds params and holds the two keys; the clock is stopped
SignChoose ==
  /\ spc = "input"
  /\ sparams' \in ParamDicts
  /\ simg' \in ImgKeys
  /\ ssub' \in SubKeys
  /\ stime' \in SignTimes
  /\ spc' = "ready"
  /\ UNCHANGED souts
  /\ UNCHANGED <<cvars, wvars, bvars, mvars>>

\* the same mapping built in another insertion order: before a call two
\* items change places
SignReorder ==
  /\ spc = "ready"
  /\ Len(souts) < MaxCalls
  /\ spc' = "reordered"
  /\ \E a, b \in 1..Len(sparams) :
       /\ a < b
       /\ sparams' = [i \in 1..Len(sparams) |->
                        IF i = a THEN sparams[b] ELSE IF i = b THEN sparams[a]
                        ELSE sparams[i]]
  /\ UNCHANGED <<simg, ssub, stime, souts>>
  /\ UNCHANGED <<cvars, wvars, bvars, mvars>>

\* a call enc_wbi(params, img_key, sub_key); line 50 changes the caller's dict
SignCall ==
  /\ spc \in {"ready", "reordered"}
  /\ Len(souts) < MaxCalls
  /\ \E r \in {enc_wbi(sparams, simg, ssub, stime)} :
       /\ souts' = Append(souts, [passed |-> sparams, ret |-> r])
       /\ sparams' = r.arg
  /\ spc' = "ready"
  /\ UNCHANGED <<simg, ssub, stime>>
  /\ UNCHANGED <<cvars, wvars, bvars, mvars>>

SignNext == SignChoose \/ SignReorder \/ SignCall

----------------------------------------------------------------------------
\* Configuration (lines 80-92, 201-238)

MAX_ITEMS_PER_CATEGORY == 50

MAX_AGE_DAYS == 30

\* timedelta(days=MAX_AGE_DAYS), in seconds
MaxAge == MAX_AGE_DAYS * 86400

\* the keys of RSS_SOURCES; fetch_all_news creates every one of them
\* (lines 819, 892) and adds no other (lines 904, 916)
Categories == {"official", "community", "art"}

----------------------------------------------------------------------------
\* datetime.fromisoformat and the comparisons made on `published`

\* the UTC offset a suffix states, in seconds ("" is a naive time)
OffsetOf(suffix) ==
  CASE suffix = "+09:00" -> 32400
    [] suffix = "-05:00" -> 0 - 18000
    [] OTHER -> 0

\* fromisoformat succeeds on an ISO-8601 string (Python 3.11 and later,
\* which also reads the suffix "Z"); it raises ValueError on any other
\* string and TypeError on a value that is no string
Parses(p) == p.k = "iso"

\* the instant of a parsed value; a naive one is read as UTC (lines 982-983)
Instant(p) == p.local - OffsetOf(p.suffix)

\* the rank of a suffix in the order of Python's string comparison
\* ("" < "+..." < "-..." < "Z": code points 43, 45, 90)
SuffixRank(suffix) ==
  CASE suffix = "" -> 0
    [] suffix = "+00:00" -> 1
    [] suffix = "+09:00" -> 2
    [] suffix = "-05:00" -> 3
    [] suffix = ".000001+00:00" -> 4
    [] suffix = "Z" -> 5

\* x.get("published", "") of line 990 as a comparable key: the absent key
\* is "", which is below every string; an ISO string starts with a digit,
\* which is below the letter a text that is no date starts with
PublishedKey(item) ==
  LET p == item.published
  IN  CASE p.k = "absent" -> <<0, 0, 0>>
        [] p.k = "iso" -> <<1, p.local, SuffixRank(p.suffix)>>
        [] p.k = "bad" -> <<2, 0, 0>>

\* lexicographic order of two keys of three numbers
KeyLess(a, b) ==
  \/ a[1] < b[1]
  \/ a[1] = b[1] /\ a[2] < b[2]
  \/ a[1] = b[1] /\ a[2] = b[2] /\ a[3] < b[3]

----------------------------------------------------------------------------
\* In the definitions below a local variable of the code is a variable bound
\* over a one-element set, CHOOSE y \in {e(v) : v \in {value}} : TRUE, which
\* is e(value) with the value computed once.

\* the position each entry of a list of keys takes in a stable ascending
\* sort: one more than the number of entries that precede it, which are
\* those of a smaller key and those of the same key before it
Positions(ks) ==
  [i \in 1..Len(ks) |->
     1 + Cardinality({j \in 1..Len(ks) :
           KeyLess(ks[j], ks[i]) \/ (j < i /\ ~KeyLess(ks[i], ks[j]))})]

\* list.sort: a stable ascending sort of the items, ks[i] the key of the
\* item at i
StableSort(items0, ks) ==
  CHOOSE y \in {[r \in 1..Len(items) |-> items[CHOOSE i \in 1..Len(items) : pos[i] = r]] :
                  items \in {items0}, pos \in {Positions(ks)}} : TRUE

\* the key of a sort with reverse=True: descending, and items of equal
\* key still in their original order
Reversed(key) == <<0 - key[1], 0 - key[2], 0 - key[3]>>

----------------------------------------------------------------------------
\* fetch_all_news: dedupe, sort, truncate (lines 921-953)

\* every item appended, whatever its id
Dedupe_None(items0) == items0

\* of the items of one id the last one kept
Dedupe_KeepLast(items0) ==
  LET last(i) == \A j \in (i + 1)..Len(items0) : items0[j].id # items0[i].id
      idx == SelectSeq([i \in 1..Len(items0) |-> i], last)
  IN  [k \in 1..Len(idx) |-> items0[idx[k]]]

\* lines 925-931: an item is appended unless its id was seen before it
Dedupe(items0) ==
  CHOOSE y \in
    {LET unseen(i) == \A j \in 1..(i - 1) : items[j].id # items[i].id
         idx == SelectSeq([i \in 1..Len(items) |-> i], unseen)
     IN  [k \in 1..Len(idx) |-> items[idx[k]]] : items \in {items0}} : TRUE

\* _ts, lines 935-939: the timestamp, 0 when fromisoformat raises
\* (an absent key reads as "", line 937)
_ts(item) == IF Parses(item.published) THEN Instant(item.published) ELSE 0

\* line 942: key (priority, -ts)
ReduceKey(x) == <<x.priority, 0 - _ts(x), 0>>

\* the slice [:MAX_ITEMS_PER_CATEGORY] not taken
Truncate_None(items) == items

\* lines 945 and 991: the slice [:MAX_ITEMS_PER_CATEGORY]
Truncate(items0) ==
  CHOOSE y \in
    {SubSeq(items, 1, IF Len(items) < MAX_ITEMS_PER_CATEGORY THEN Len(items)
                      ELSE MAX_ITEMS_PER_CATEGORY) : items \in {items0}} : TRUE

\* line 942: unique_items.sort(key=...)
ReduceSort(items0) ==
  CHOOSE y \in {StableSort(items, [i \in 1..Len(items) |-> ReduceKey(items[i])]) :
                  items \in {items0}} : TRUE

\* lines 922-949 for one category
ReduceCategory(original_items) ==
  CHOOSE y \in {[items |-> unique_items, count |-> Len(unique_items)] :
                  unique_items \in {Truncate(ReduceSort(Dedupe(original_items)))}} : TRUE

\* a category without items, as line 810 sets it up
NoItems == <<>>

EmptyCategory == [items |-> NoItems, count |-> 0]

----------------------------------------------------------------------------
\* merge_with_existing (lines 956-996)

\* the key an entry has in the dict new_items: its "id" value (null is a
\* key like any other)
IdKey(item) == <<item.idk, item.id>>

\* line 979 raises on an entry that is no JSON object (TypeError), has no
\* "id" (KeyError) or has an unhashable "id" (TypeError); neither is caught
IdFault(item) ==
  IF item.shape # "dict" THEN "TypeError"
  ELSE IF item.idk = "absent" THEN "KeyError"
  ELSE IF item.idk = "unhashable" THEN "TypeError"
  ELSE ""

\* the comparison made with >= instead of >
NotExpired_Inclusive(published, cutoff) == Instant(published) >= cutoff

\* lines 981-984: pub_date > cutoff, a naive pub_date read as UTC
NotExpired(published, cutoff) == Instant(published) > cutoff

\* lines 980-987 for an entry whose id is not in new_items: it is added when
\* its date parses and is not expired; ValueError (a string that is no
\* date) and KeyError (no "published") are caught and the entry is skipped
Retained(item, cutoff) ==
  /\ Parses(item.published)
  /\ NotExpired(item.published, cutoff)

\* the loop of lines 978-987 over the old entries, given the ids of the
\* fresh items.  The entry at i finds its id in new_items when a fresh item
\* has it or an earlier old entry of that id was added.
OldLoop(fresh_ids, old0, cutoff) ==
  CHOOSE y \in {
    LET n == Len(old)
        present(i) ==
          \/ IdKey(old[i]) \in fresh_ids
          \/ \E j \in 1..(i - 1) :
               /\ IdFault(old[j]) = ""
               /\ IdKey(old[j]) = IdKey(old[i])
               /\ Retained(old[j], cutoff)
        \* the exception the entry at i raises, "" when none: line 979,
        \* or line 981 on a value that is no string (TypeError, not caught)
        fault(i) ==
          IF IdFault(old[i]) # "" THEN IdFault(old[i])
          ELSE IF ~present(i) /\ old[i].published.k = "nonstring" THEN "TypeError"
          ELSE ""
        faulty == {i \in 1..n : fault(i) # ""}
        added(i) == ~present(i) /\ Retained(old[i], cutoff)
        idx == SelectSeq([i \in 1..n |-> i], added)
    IN  IF faulty # {}
        THEN [exc |-> fault(CHOOSE i \in faulty : \A j \in faulty : i <= j),
              added |-> <<>>]
        ELSE [exc |-> "", added |-> [k \in 1..Len(idx) |-> old[idx[k]]]]
    : old \in {old0}} : TRUE

\* line 974: the dict keeps one entry per id, at the place of the first
\* item of that id and with the value of the last one
DictValues(items0) ==
  CHOOSE y \in {
    LET first(i) == \A j \in 1..(i - 1) : items[j].id # items[i].id
        idx == SelectSeq([i \in 1..Len(items) |-> i], first)
        last(i) == CHOOSE j \in i..Len(items) :
                     /\ items[j].id = items[i].id
                     /\ \A m \in (j + 1)..Len(items) : items[m].id # items[i].id
    IN  [k \in 1..Len(idx) |-> items[last(idx[k])]]
    : items \in {items0}} : TRUE

\* line 990: key x.get("published", ""), reverse=True
MergeKey(x) == Reversed(PublishedKey(x))

\* line 990: merged_list.sort(key=..., reverse=True)
MergeSort(items0) ==
  CHOOSE y \in {StableSort(items, [i \in 1..Len(items) |-> MergeKey(items[i])]) :
                  items \in {items0}} : TRUE

\* lines 989-994: the list sorted and cut, and its length
MergedCategory(new_items) ==
  CHOOSE y \in {[items |-> merged_list, count |-> Len(merged_list)] :
                  merged_list \in {Truncate(MergeSort(new_items))}} : TRUE

\* the old entries that pass the age test put in the place of the fresh
\* items of their ids
NewItems_OldWins(fresh_items, old, cutoff) ==
  LET values == DictValues(fresh_items)
      r == OldLoop({}, old, cutoff)
      replaced(v) == \E k \in 1..Len(r.added) : IdKey(r.added[k]) = IdKey(v)
      stays(v) == ~replaced(v)
  IN  [exc |-> r.exc, values |-> SelectSeq(values, stays) \o r.added]

\* lines 974-987: the values of new_items after the loop, or the exception
NewItems(fresh_items, old, cutoff) ==
  CHOOSE y \in {
    CHOOSE z \in {[exc |-> r.exc, values |-> values \o r.added] :
                    r \in {OldLoop({IdKey(values[i]) : i \in 1..Len(values)}, old, cutoff)}} : TRUE
    : values \in {DictValues(fresh_items)}} : TRUE

\* lines 974-994 for one category; `old` is the list the snapshot holds for
\* it (empty when the snapshot has no such category)
MergeCategory(fresh_items, old, cutoff) ==
  CHOOSE y \in {
    IF n.exc # "" THEN [exc |-> n.exc, cat |-> EmptyCategory]
    ELSE [exc |-> "", cat |-> MergedCategory(n.values)]
    : n \in {NewItems(fresh_items, old, cutoff)}} : TRUE

\* the list existing_categories[cat_key].get("items", []) of line 978
OldItems(f, c) == IF f.k = "ok" /\ c \in DOMAIN f.cats THEN f.cats[c].items ELSE <<>>

\* merge_with_existing(new_data) at time t with the file f on disk: the
\* exception raised ("" when it returns) and the data returned
merge_with_existing(new_data, f, t) ==
  IF f.k = "missing" THEN [exc |-> "", data |-> new_data]             \* lines 961-962
  ELSE IF f.k \in {"ioerror", "badjson"} THEN [exc |-> "", data |-> new_data]  \* 964-968
  ELSE IF f.k = "badutf8" THEN [exc |-> "UnicodeDecodeError", data |-> new_data]
  ELSE IF f.k = "notdict" THEN [exc |-> "AttributeError", data |-> new_data]   \* line 970
  ELSE IF f.k = "catsnull" THEN [exc |-> "TypeError", data |-> new_data]       \* line 977
  ELSE IF f.k = "catbad" THEN [exc |-> "AttributeError", data |-> new_data]    \* line 978
  ELSE IF f.k = "itemsnull" THEN [exc |-> "TypeError", data |-> new_data]      \* line 978
  ELSE CHOOSE y \in {
         IF \E c \in Categories : m[c].exc # ""
         THEN [exc |-> m[CHOOSE c \in Categories : m[c].exc # ""].exc, data |-> new_data]
         ELSE [exc |-> "", data |-> [c \in Categories |-> m[c].cat]]
         : m \in {[c \in Categories |->
                     MergeCategory(new_data[c].items, OldItems(f, c), t - MaxAge)]}} : TRUE

----------------------------------------------------------------------------
\* What the sources return in one run

\* the bulk a ranking or image source returns (50 per partition at line 579,
\* 40 at line 444): BulkSize items, newest first, all published shortly
\* before `t`
BulkSize == 50

Bulk(t) ==
  [i \in 1..BulkSize |-> Item(<<"bulk", i>>, 1, Iso(t - 60 * i, "+00:00"), "bulk")]

\* a feed, in fetch order: entries the sources may return in a run at time t
\*   1: id a, priority 2, published an hour ago
\*   2: id a again with other metadata (the same entry from a second source)
\*   3: id b, priority 1, published 31 days ago
\*   4: id c, priority 2, a wiki edit with a "Z" timestamp, a day ago
Feed(t) ==
  << Item(<<"feed", 1>>, 2, Iso(t - 3600, "+00:00"), "first"),
     Item(<<"feed", 1>>, 1, Iso(t - 7200, "+00:00"), "second"),
     Item(<<"feed", 2>>, 1, Iso(t - 31 * 86400, "+00:00"), "old news"),
     Item(<<"thwiki", 3>>, 2, Iso(t - 86400, "Z"), "wiki") >>

\* the entries of the feed at the positions in `chosen`, in feed order
Pick(feed, chosen) ==
  LET keep(i) == i \in chosen
      idx == SelectSeq([i \in 1..Len(feed) |-> i], keep)
  IN  [j \in 1..Len(idx) |-> feed[idx[j]]]

\* what one category gathers: possibly the bulk, then any part of the feed
Batches(t) ==
  {Pick(Feed(t), chosen) : chosen \in SUBSET (1..4)}
  \cup {Bulk(t) \o Pick(Feed(t), chosen) : chosen \in {{}, 1..4}}

\* entries of every kind the reduce step may meet, in fetch order
\*   1: id a, priority 2, an hour ago     2: id a again, priority 1
\*   3: id b, priority 2, "published" is no date (a wiki timestamp the
\*      parser refuses)
\*   4: id c, priority 2, dated 1969-12-31T23:59:59+00:00 by its feed
\*   5: id d, priority 1, six hours ago, written at +09:00
\*   6: id e, priority 1, three hours ago
Mixed(t) ==
  << Item(<<"feed", 1>>, 2, Iso(t - 3600, "+00:00"), "first"),
     Item(<<"feed", 1>>, 1, Iso(t - 7200, "+00:00"), "second"),
     Item(<<"thwiki", 2>>, 2, BadDate, "no date"),
     Item(<<"feed", 3>>, 2, Iso(0 - 1, "+00:00"), "before the epoch"),
     Item(<<"feed", 4>>, 1, Iso(t - 6 * 3600 + 32400, "+09:00"), "tokyo"),
     Item(<<"feed", 5>>, 1, Iso(t - 3 * 3600, "+00:00"), "three hours ago") >>

\* a list in reverse order
Backwards(l) == [i \in 1..Len(l) |-> l[Len(l) + 1 - i]]

\* what one category gathers of these: any part, in either order, and the
\* bulk followed by all of them
MixedBatches(t) ==
  {Pick(Mixed(t), chosen) : chosen \in SUBSET (1..6)}
  \cup {Backwards(Pick(Mixed(t), chosen)) : chosen \in SUBSET (1..6)}
  \cup {Bulk(t) \o Mixed(t)}

----------------------------------------------------------------------------
\* DATA_FILE (line 83) and its content

\* the file does not exist
Missing == [k |-> "missing", cats |-> <<>>]

\* the file holds the JSON that json.dump wrote for `cats` (line 1066);
\* json.load gives the same values back: keys and `published` are strings,
\* priorities are integers
Written(cats) == [k |-> "ok", cats |-> cats]

\* open(DATA_FILE, "w") has emptied the file, or json.dump stopped midway:
\* what is on disk is no JSON text
CutShort == [k |-> "badjson", cats |-> <<>>]

\* the file exists and
\*   ioerror    cannot be opened or read (IOError)
\*   badjson    is no JSON text (empty, cut short): JSONDecodeError
\*   badutf8    is no UTF-8 text: UnicodeDecodeError
\*   notdict    is JSON, but no object (an array, a string, null)
\*   nocats     is a JSON object without "categories"
\*   catsnull   is a JSON object whose "categories" is null
\*   catbad     has a category that is no object
\*   itemsnull  has a category whose "items" is null
Unreadable == {[k |-> x, cats |-> <<>>] : x \in {"ioerror", "badjson"}}

Invalid ==
  {[k |-> x, cats |-> <<>>] :
      x \in {"badutf8", "notdict", "nocats", "catsnull", "catbad", "itemsnull"}}

\* entries a snapshot written by another hand may hold, at time t
\*    1  the id of the feed's first entry, five days old
\*    2  dated exactly t - MaxAge          3  dated one second later
\*    4  one second later, no timezone     5  exactly t - MaxAge, at +09:00
\*    6  "published" is no date            7  "published" is absent
\*    8  "published" is no string          9  "id" is absent
\*   10  "id" is null                     11  "id" is unhashable
\*   12  the entry is no object           13  the id of 3, other content,
\*                                           half a minute old
\*   14  six hours old, written at +09:00 (a local time three hours ahead)
\*   15  the id of the feed's first entry, "published" is no string
\*   16  the id of the oldest item of the bulk, a day old
OldEntries(t) ==
  << Item(<<"feed", 1>>, 2, Iso(t - 5 * 86400, "+00:00"), "stored"),
    Item(<<"old", 2>>, 2, Iso(t - MaxAge, "+00:00"), "at the boundary"),
    Item(<<"old", 3>>, 2, Iso(t - MaxAge + 1, "+00:00"), "a second younger"),
    Item(<<"old", 4>>, 2, Iso(t - MaxAge + 1, ""), "naive"),
    Item(<<"old", 5>>, 2, Iso(t - MaxAge + 32400, "+09:00"), "tokyo"),
    Item(<<"old", 6>>, 2, BadDate, "no date"),
    Item(<<"old", 7>>, 2, NoDate, "undated"),
    Item(<<"old", 8>>, 2, NonStringDate, "null date"),
    [Item(<<"none", 0>>, 2, Iso(t - 86400, "+00:00"), "no id") EXCEPT !.idk = "absent"],
    [Item(<<"none", 0>>, 2, Iso(t - 86400, "+00:00"), "null id") EXCEPT !.idk = "null"],
    [Item(<<"none", 0>>, 2, Iso(t - 86400, "+00:00"), "list id") EXCEPT !.idk = "unhashable"],
    [Item(<<"none", 0>>, 2, Iso(t - 86400, "+00:00"), "text") EXCEPT !.shape = "other"],
    Item(<<"old", 3>>, 1, Iso(t - 30, "+00:00"), "same id"),
    Item(<<"old", 14>>, 2, Iso(t - 6 * 3600 + 32400, "+09:00"), "six hours ago"),
    Item(<<"feed", 1>>, 2, NonStringDate, "stored, null date"),
    Item(<<"bulk", MAX_ITEMS_PER_CATEGORY>>, 1, Iso(t - 86400, "+00:00"), "stored bulk") >>

MaxOld == 2

\* the lists of up to MaxOld of these entries, in the order above
OldLists(t) ==
  {Pick(OldEntries(t), chosen) :
      chosen \in {c \in SUBSET (1..16) : Cardinality(c) <= MaxOld}}

\* a well-formed snapshot written by another hand: one category with up to
\* MaxOld entries
ForeignSnapshots(t) ==
  {Written([c \in {"community"} |-> [items |-> l, count |-> Len(l)]]) : l \in OldLists(t)}

----------------------------------------------------------------------------
\* main (lines 999-1075)

\* the clock at the first run
FirstRun == 1700000000

\* the time between two runs: an hour, so that the feed entry dated 31 days
\* back is an expired entry of the snapshot at the next run
RunIntervals == {3600}

MaxRuns == 2

MainInit ==
  /\ pc = "start"
  /\ now = FirstRun
  /\ run = 1
  /\ raw = [c \in Categories |-> NoItems]
  /\ fresh = [c \in Categories |-> EmptyCategory]
  /\ news = [c \in Categories |-> EmptyCategory]
  /\ file = Missing
  /\ file0 = Missing
  /\ steps = <<>>
  /\ err = ""

\* line 1004, fetch_all_news: one category gathers a batch (lines 819-919),
\* then every category is deduplicated, sorted and cut (lines 921-949)
FetchAllNews ==
  /\ pc = "start"
  /\ \E c \in Categories, b \in Batches(now) :
       /\ raw' = [x \in Categories |-> IF x = c THEN b ELSE NoItems]
       /\ news' = [x \in Categories |-> ReduceCategory(IF x = c THEN b ELSE NoItems)]
  /\ fresh' = news'
  /\ pc' = "fetched"
  /\ steps' = Append(steps, "fetch")
  /\ UNCHANGED <<now, run, file, file0, err>>
  /\ UNCHANGED <<cvars, wvars, bvars, svars>>

\* line 1004 with the sources returning entries of every kind
FetchMixed ==
  /\ pc = "start"
  /\ \E c \in Categories, b \in MixedBatches(now) :
       /\ raw' = [x \in Categories |-> IF x = c THEN b ELSE NoItems]
       /\ news' = [x \in Categories |-> ReduceCategory(IF x = c THEN b ELSE NoItems)]
  /\ fresh' = news'
  /\ pc' = "fetched"
  /\ steps' = Append(steps, "fetch")
  /\ UNCHANGED <<now, run, file, file0, err>>
  /\ UNCHANGED <<cvars, wvars, bvars, svars>>

\* lines 922-949 applied to their own output
ReduceAgain ==
  /\ pc = "fetched"
  /\ news' = [c \in Categories |-> ReduceCategory(fresh[c].items)]
  /\ pc' = "again"
  /\ steps' = Append(steps, "reduce")
  /\ UNCHANGED <<now, run, raw, fresh, file, file0, err>>
  /\ UNCHANGED <<cvars, wvars, bvars, svars>>

\* every item of a list twice, one after the other
Doubled(l) == [i \in 1..(2 * Len(l)) |-> l[(i + 1) \div 2]]

\* lines 922-949 applied to the gathered items with every item repeated:
\* the whole list a second time, or each item twice in a row
ReduceRepeated ==
  /\ pc = "fetched"
  /\ \/ news' = [c \in Categories |-> ReduceCategory(raw[c] \o raw[c])]
     \/ news' = [c \in Categories |-> ReduceCategory(Doubled(raw[c]))]
  /\ pc' = "repeated"
  /\ steps' = Append(steps, "reduce")
  /\ UNCHANGED <<now, run, raw, fresh, file, file0, err>>
  /\ UNCHANGED <<cvars, wvars, bvars, svars>>

\* the file opened in a mode that empties it
AfterRead_Truncating(f) == CutShort

\* line 965: the file is opened for reading, which leaves it as it is
AfterRead(f) == f

\* line 1007, merge_with_existing
MergeWithExisting ==
  /\ pc = "fetched"
  /\ \E r \in {merge_with_existing(news, file, now)} :
       IF r.exc = ""
       THEN /\ news' = r.data
            /\ pc' = "merged"
            /\ steps' = Append(steps, "merge")
            /\ err' = ""
       ELSE /\ pc' = "crashed"
            /\ err' = r.exc
            /\ UNCHANGED <<news, steps>>
  /\ file' = AfterRead(file)
  /\ UNCHANGED <<now, run, raw, fresh, file0>>
  /\ UNCHANGED <<cvars, wvars, bvars, svars>>

\* line 1065: open(DATA_FILE, "w") empties the file
OpenForWrite ==
  /\ pc = "merged"
  /\ file' = CutShort
  /\ pc' = "writing"
  /\ steps' = Append(steps, "open")
  /\ UNCHANGED <<now, run, raw, fresh, news, file0, err>>
  /\ UNCHANGED <<cvars, wvars, bvars, svars>>

\* line 1065: open raises (no permission, no space)
OpenFails ==
  /\ pc = "merged"
  /\ pc' = "crashed"
  /\ err' = "OSError"
  /\ UNCHANGED <<now, run, raw, fresh, news, file, file0, steps>>
  /\ UNCHANGED <<cvars, wvars, bvars, svars>>

\* line 1066: json.dump writes the whole dataset
Dump ==
  /\ pc = "writing"
  /\ file' = Written(news)
  /\ pc' = "done"
  /\ steps' = Append(steps, "dump")
  /\ UNCHANGED <<now, run, raw, fresh, news, file0, err>>
  /\ UNCHANGED <<cvars, wvars, bvars, svars>>

\* line 1066: json.dump stops midway (the disk is full)
DumpFails ==
  /\ pc = "writing"
  /\ file' = CutShort
  /\ pc' = "crashed"
  /\ err' = "OSError"
  /\ UNCHANGED <<now, run, raw, fresh, news, file0, steps>>
  /\ UNCHANGED <<cvars, wvars, bvars, svars>>

\* the process is terminated from outside before line 1065
Killed ==
  /\ pc \in {"start", "fetched", "merged"}
  /\ pc' = "crashed"
  /\ err' = "killed"
  /\ UNCHANGED <<now, run, raw, fresh, news, file, file0, steps>>
  /\ UNCHANGED <<cvars, wvars, bvars, svars>>

\* the next run of main, some time later
NextRun ==
  /\ pc \in {"done", "crashed"}
  /\ run < MaxRuns
  /\ \E d \in RunIntervals : now' = now + d
  /\ run' = run + 1
  /\ pc' = "start"
  /\ raw' = [c \in Categories |-> NoItems]
  /\ fresh' = [c \in Categories |-> EmptyCategory]
  /\ news' = [c \in Categories |-> EmptyCategory]
  /\ file0' = file
  /\ steps' = <<>>
  /\ err' = ""
  /\ UNCHANGED file
  /\ UNCHANGED <<cvars, wvars, bvars, svars>>

\* between two runs the snapshot is lost or damaged
SnapshotDamaged ==
  /\ pc = "start"
  /\ file.k = "ok"
  /\ \E f \in {Missing, [k |-> "notdict", cats |-> <<>>]} :
       /\ file' = f
       /\ file0' = f
  /\ UNCHANGED <<pc, now, run, raw, fresh, news, steps, err>>
  /\ UNCHANGED <<cvars, wvars, bvars, svars>>

\* before the run the data file was put there by another hand
SnapshotReplaced ==
  /\ pc = "start"
  /\ file = Missing
  /\ \E f \in Unreadable \cup Invalid \cup ForeignSnapshots(now) :
       /\ file' = f
       /\ file0' = f
  /\ UNCHANGED <<pc, now, run, raw, fresh, news, steps, err>>
  /\ UNCHANGED <<cvars, wvars, bvars, svars>>

----------------------------------------------------------------------------
\* Specifications

Init == ClassifyInit /\ WikiInit /\ BiliInit /\ MainInit /\ SignInit

SpecClassify == Init /\ [][ClassifyNext]_vars

SpecWiki == Init /\ [][WikiNext]_vars

SpecBili == Init /\ [][BiliNext]_vars

SpecSign == Init /\ [][SignNext]_vars

\* runs of main, one after the other, each on the snapshot the last left
Next ==
  \/ FetchAllNews
  \/ MergeWithExisting
  \/ OpenForWrite
  \/ OpenFails
  \/ Dump
  \/ DumpFails
  \/ Killed
  \/ NextRun
  \/ SnapshotDamaged

Spec == Init /\ [][Next]_vars

\* one call of merge_with_existing on any snapshot
MergeNext == SnapshotReplaced \/ FetchAllNews \/ MergeWithExisting

SpecMerge == Init /\ [][MergeNext]_vars

\* the reduce step of fetch_all_news on entries of every kind, and on its
\* own output
ReduceNext == FetchMixed \/ ReduceAgain \/ ReduceRepeated

SpecReduce == Init /\ [][ReduceNext]_vars

\* every network call carries a timeout (lines 691, 715) and the sleeps of
\* lines 719, 725, 742 are finite: a call that can be made is made
SpecWikiFair == SpecWiki /\ WF_vars(WikiNext)

----------------------------------------------------------------------------
\* Properties of the classifier (checked under SpecClassify)

\* the text contains some term of the list, case-insensitively
\* (tm: the list with every term lowercased)
HasTermCI(t, tm) ==
  LET tl == Lower(t)
  IN  \E k \in 1..Len(tm) : Contains(tl, tm[k])

\* how many terms of the list occur in the text, case-insensitively
CountTermsCI(t, tm) ==
  LET tl == Lower(t)
  IN  Cardinality({k \in 1..Len(tm) : Contains(tl, tm[k])})

LowerAll(terms) == [k \in 1..Len(terms) |-> Lower(terms[k])]

BlacklistTerms == LowerAll(BLACKLIST_KEYWORDS)

CharacterTerms == LowerAll(CHARACTER_KEYWORDS)

\* the positive terms: core, character, work and music
PositiveTerms ==
  LowerAll(CORE_KEYWORDS \o CHARACTER_KEYWORDS \o GAME_KEYWORDS \o MUSIC_KEYWORDS)

HasMarker(t, markers) == \E m \in markers : Contains(Lower(t), m)

\* the markers the code tests: the brand term in two scripts, the english token
CodeMarkers == {Root_zh, Root_jp, Token_en}

\* the markers the specification lists: those, and the creator's handle
ClaimedMarkers == CodeMarkers \cup {<<"z", "u", "n">>}

HasRoot(t) == Contains(Lower(t), Root_zh) \/ Contains(Lower(t), Root_jp)

\* C5: a text with a blacklist term and no override marker is rejected,
\* whatever positive terms it also contains.
C5_BlacklistVeto ==
  (cpc = "done" /\ HasTermCI(text, BlacklistTerms) /\ ~HasMarker(text, CodeMarkers))
    => verdict = FALSE

\* a blacklisted text without marker that holds a positive term was rejected
C5_Witness ==
  /\ cpc = "done"
  /\ HasTermCI(text, BlacklistTerms)
  /\ ~HasMarker(text, CodeMarkers)
  /\ HasTermCI(text, PositiveTerms)
  /\ verdict = FALSE

\* C6 as stated: with a blacklist term and any of the four listed markers
\* (brand term in two scripts, english token, creator's handle) the verdict
\* is exactly "some positive term occurs".
C6_AsStated ==
  (cpc = "done" /\ HasTermCI(text, BlacklistTerms) /\ HasMarker(text, ClaimedMarkers))
    => (verdict = HasTermCI(text, PositiveTerms))

\* C6 amended: with a blacklist term and one of the three markers the code
\* tests (the brand term in either script, the english token) the veto is
\* cancelled and the verdict is exactly "some positive term occurs"; the
\* creator's handle alone cancels nothing: such a text is rejected.
C6_VetoOverride ==
  cpc = "done" /\ HasTermCI(text, BlacklistTerms) =>
    /\ HasMarker(text, CodeMarkers) => (verdict = HasTermCI(text, PositiveTerms))
    /\ ~HasMarker(text, CodeMarkers) => verdict = FALSE

\* a blacklisted text with the root marker and a character keyword, but not
\* the english token (itself a positive term), was accepted
C6_Witness ==
  /\ cpc = "done"
  /\ HasTermCI(text, BlacklistTerms)
  /\ HasRoot(text)
  /\ ~Contains(Lower(text), Token_en)
  /\ HasTermCI(text, CharacterTerms)
  /\ verdict = TRUE

\* C7: the root term with no blacklist term and no positive term is
\* rejected; the root term with exactly one character keyword and no
\* blacklist term is accepted.
C7_WeakRoot ==
  (cpc = "done" /\ HasRoot(text) /\ ~HasTermCI(text, BlacklistTerms)) =>
    /\ ~HasTermCI(text, PositiveTerms) => verdict = FALSE
    /\ CountTermsCI(text, CharacterTerms) = 1 => verdict = TRUE

\* the root term with exactly one character keyword and nothing else
\* topical was accepted
C7_Witness ==
  /\ cpc = "done"
  /\ HasRoot(text)
  /\ ~HasTermCI(text, BlacklistTerms)
  /\ CountTermsCI(text, CharacterTerms) = 1
  /\ CountTermsCI(text, PositiveTerms) = 1
  /\ verdict = TRUE

----------------------------------------------------------------------------
\* Properties of fetch_thwiki_api (checked under SpecWikiFair)

\* the answer is a well-formed change list
Parsable(data) ==
  /\ data.k = "dict"
  /\ \A i \in 1..Len(data.rc) : data.rc[i].titled

\* the direct call produced at least one item
DirectYields(resp) ==
  /\ resp.status = 200
  /\ resp.body = "json"
  /\ Parsable(resp.data)
  /\ \E i \in 1..Len(resp.data.rc) : ~resp.data.rc[i].bot

\* the proxy call failed: no answer, a status other than 200, or a body
\* that does not hold a well-formed change list
ProxyFailed(resp) ==
  ~(resp.status = 200 /\ resp.body = "contents" /\ Parsable(resp.data))

C9_Shape ==
  /\ wpc # "raised"
  /\ Len(calls) <= 1 + 3
  /\ wpc # "direct" => Len(calls) >= 1
  /\ \A i \in 1..Len(calls) :
       /\ i = 1 => calls[i].via = "Direct"
       /\ i > 1 => calls[i].via = "Proxy" /\ calls[i].n = i - 1
       /\ i > 1 => ~DirectYields(calls[1].resp)
       /\ (i > 1 /\ i - 1 < 3 /\ ProxyFailed(calls[i].resp))
            => (i < Len(calls) \/ wpc = "proxy")
       /\ i < Len(calls) => (i = 1 \/ ProxyFailed(calls[i].resp))
  /\ (wpc = "done" /\ Len(calls) = 4 /\ ProxyFailed(calls[4].resp)) => wresult = <<>>
  /\ wpc = "done" => (wresult # <<>> => ~ProxyFailed(calls[Len(calls)].resp)
                                          \/ DirectYields(calls[Len(calls)].resp))

\* C9: the network calls are Direct, then proxy attempts 1..n with n <= 3;
\* a proxy call is made only after a direct call that failed or gave no
\* items; a failed proxy attempt before the third is followed by another;
\* after the third failed attempt the result is the empty list; the function
\* never raises and always terminates.
C9_BoundedRetry == [](C9_Shape) /\ <>(wpc = "done")

\* the direct call and all three proxy attempts failed and the function
\* returned the empty list
C9_Witness ==
  /\ wpc = "done"
  /\ Len(calls) = 4
  /\ \A i \in 2..4 : ProxyFailed(calls[i].resp)
  /\ wresult = <<>>

----------------------------------------------------------------------------
\* Properties of fetch_bilibili_rank_api (checked under SpecBili)

\* the key-material fetch failed: no keys came back, or a key is empty or
\* shorter than the 32 characters of a WBI key fragment
KeyFetchFailed ==
  \/ bkeys.none
  \/ Len(bkeys.img) < 32
  \/ Len(bkeys.sub) < 32

\* C8: when the key-material fetch failed, no request goes to the ranking
\* endpoint, the function returns the empty list and does not raise.
C8_SigningUnavailable ==
  (bpc \in {"done", "raised"} /\ KeyFetchFailed)
    => (sent = <<>> /\ bpc = "done" /\ bresult = <<>>)

----------------------------------------------------------------------------
\* Properties of the pipeline: reduce, merge, write

Capped(cat) ==
  /\ Len(cat.items) <= MAX_ITEMS_PER_CATEGORY
  /\ cat.count = Len(cat.items)

\* C1: in every run, whatever the runs before it left on disk, each category
\* that fetch_all_news returned and each category that merge_with_existing
\* returned holds at most MAX_ITEMS_PER_CATEGORY items and has `count` equal
\* to the length of `items`; so does each category of a snapshot written.
C1_CapEnforced ==
  /\ \A c \in Categories : Capped(fresh[c]) /\ Capped(news[c])
  /\ file.k = "ok" => \A c \in DOMAIN file.cats : Capped(file.cats[c])

\* C1: a second run whose merge had more than the cap to choose from: an
\* item of the first run's snapshot, young and of an id the fresh category
\* lacks, was cut and the category holds exactly the cap
C1_Witness ==
  /\ run = 2
  /\ pc = "merged"
  /\ file.k = "ok"
  /\ \E c \in DOMAIN file.cats :
       /\ Len(news[c].items) = MAX_ITEMS_PER_CATEGORY
       /\ news[c].count = MAX_ITEMS_PER_CATEGORY
       /\ \E i \in 1..Len(file.cats[c].items) :
            /\ \A k \in 1..Len(fresh[c].items) :
                 fresh[c].items[k].id # file.cats[c].items[i].id
            /\ \A k \in 1..Len(news[c].items) :
                 news[c].items[k].id # file.cats[c].items[i].id

\* merge_with_existing was called in this run and has returned or raised
MergeReturned == pc = "merged"

MergeRaised ==
  /\ pc = "crashed"
  /\ err \in {"TypeError", "KeyError", "AttributeError", "UnicodeDecodeError"}

\* the entry at i of the snapshot's list `old`, seen from outside
IdInFresh(c, item) ==
  \E k \in 1..Len(fresh[c].items) : IdKey(fresh[c].items[k]) = IdKey(item)

Young(item) ==
  /\ item.published.k = "iso"
  /\ Instant(item.published) > now - MAX_AGE_DAYS * 86400

Kept(c, item) == \E k \in 1..Len(news[c].items) : news[c].items[k] = item

FirstOfItsId(old, i) == \A j \in 1..(i - 1) : IdKey(old[j]) # IdKey(old[i])

\* C2 as stated: when merge_with_existing has returned, an entry of the
\* snapshot whose id no fresh item of the category has is in the returned
\* category if and only if it is dated strictly later than now - MAX_AGE_DAYS
C2_AsStated ==
  (MergeReturned /\ file.k = "ok") =>
    \A c \in DOMAIN file.cats : \A i \in 1..Len(file.cats[c].items) :
      LET item == file.cats[c].items[i]
      IN  ~IdInFresh(c, item) => (Kept(c, item) <=> Young(item))

\* the number of entries of the snapshot's list that pass the retention step
RetainedCount(c) ==
  Cardinality({i \in 1..Len(file.cats[c].items) :
                 /\ ~IdInFresh(c, file.cats[c].items[i])
                 /\ FirstOfItsId(file.cats[c].items, i)
                 /\ Young(file.cats[c].items[i])})

\* C2: when merge_with_existing has returned, an entry of the snapshot whose
\* id neither a fresh item nor an earlier entry of the snapshot has is
\* returned only if it is dated strictly later than now - MAX_AGE_DAYS (a
\* date without timezone read as UTC), and is returned whenever it is so
\* dated and the fresh items and the retained entries together fit the cap.
C2_Retention ==
  (MergeReturned /\ file.k = "ok") =>
    \A c \in DOMAIN file.cats : \A i \in 1..Len(file.cats[c].items) :
      LET item == file.cats[c].items[i]
      IN  (~IdInFresh(c, item) /\ FirstOfItsId(file.cats[c].items, i)) =>
            /\ Kept(c, item) => Young(item)
            /\ (Young(item) /\ Len(fresh[c].items) + RetainedCount(c)
                                 <= MAX_ITEMS_PER_CATEGORY) => Kept(c, item)

\* C2: a merge has returned on a snapshot with an entry dated exactly
\* now - MAX_AGE_DAYS, which is gone, and an entry dated one second later,
\* which is there
C2_Witness ==
  /\ MergeReturned
  /\ file.k = "ok"
  /\ \E c \in DOMAIN file.cats : \E i, j \in 1..Len(file.cats[c].items) :
       /\ ~IdInFresh(c, file.cats[c].items[i])
       /\ Instant(file.cats[c].items[i].published) = now - MAX_AGE_DAYS * 86400
       /\ ~Kept(c, file.cats[c].items[i])
       /\ ~IdInFresh(c, file.cats[c].items[j])
       /\ Instant(file.cats[c].items[j].published) = now - MAX_AGE_DAYS * 86400 + 1
       /\ Kept(c, file.cats[c].items[j])

\* an entry of a snapshot that is no object, lacks a usable id, or has a
\* `published` that is no ISO-8601 string
Malformed(item) ==
  \/ item.shape # "dict"
  \/ item.idk # "str"
  \/ item.published.k # "iso"

WithoutMalformed(f) ==
  Written([c \in DOMAIN f.cats |->
             [items |-> SelectSeq(f.cats[c].items, LAMBDA x : ~Malformed(x)),
              count |-> f.cats[c].count]])

\* C3 as stated: when merge_with_existing is called on a snapshot that holds
\* a malformed entry, it returns, and returns what it would have returned
\* had the snapshot not held the malformed entries
C3_AsStated ==
  ( /\ MergeReturned \/ MergeRaised
    /\ file.k = "ok"
    /\ \E c \in DOMAIN file.cats : \E i \in 1..Len(file.cats[c].items) :
         Malformed(file.cats[c].items[i]) )
  => /\ MergeReturned
     /\ news = merge_with_existing(fresh, WithoutMalformed(file), now).data

\* C4 as stated: when merge_with_existing is called and the file is missing,
\* unreadable or not a well-formed snapshot, it returns the categories that
\* fetch_all_news returned, unchanged
C4_AsStated ==
  ((MergeReturned \/ MergeRaised) /\ file.k # "ok")
  => (MergeReturned /\ news = fresh)

\* DATA_FILE was opened for writing in this run
Opened == \E i \in 1..Len(steps) : steps[i] = "open"

\* C10: in a run of main, the file is opened for writing only as the third
\* step, after fetch_all_news and merge_with_existing have returned; as long
\* as it has not been opened, however the run has ended, the file is as it
\* was when the run began.
C10_NoPartialCommit ==
  /\ Opened => (Len(steps) >= 3 /\ SubSeq(steps, 1, 3) = <<"fetch", "merge", "open">>)
  /\ ~Opened => file = file0

\* C10: a run that found a snapshot, fetched, and ended abnormally before
\* the file was opened for writing: the snapshot is as it was
C10_Witness ==
  /\ pc = "crashed"
  /\ steps # <<>>
  /\ ~Opened
  /\ file0.k = "ok"
  /\ file = file0

----------------------------------------------------------------------------
\* Properties of the signing functions

\* C11: the table has 64 entries and every index 0..63 occurs in it; in
\* every call with img_key + sub_key of 64 characters the mixin key has
\* exactly 32 characters, the i-th of them (0 <= i < 32) being the character
\* of img_key + sub_key at index table[i].
C11_KeyDerivation ==
  /\ Len(mixin_key_enc_tab) = 64
  /\ {mixin_key_enc_tab[j] : j \in 1..64} = 0..63
  /\ \A c \in 1..Len(souts) :
       Len(simg \o ssub) = 64 =>
         /\ ~souts[c].ret.exc
         /\ Len(souts[c].ret.mixin_key) = 32
         /\ \A i \in 0..31 :
              souts[c].ret.mixin_key[i + 1] = (simg \o ssub)[mixin_key_enc_tab[i + 1] + 1]

\* C11: a call was made with two keys of 32 characters that all differ, and
\* the key derived is not the beginning of their concatenation
C11_Witness ==
  /\ souts # <<>>
  /\ simg = IMG_DISTINCT
  /\ ssub = SUB_DISTINCT
  /\ Len(souts[1].ret.mixin_key) = 32
  /\ souts[1].ret.mixin_key # SubSeq(simg \o ssub, 1, 32)

\* the items of a dict, as a set, the one named k left out
ItemsBut(d, k) == {d[i] : i \in {j \in 1..Len(d) : d[j][1] # k}}

\* the items of a dict in their order, the last one left out
ButLast(d) == SubSeq(d, 1, Len(d) - 1)

\* C12: with the clock fixed, every call that returns gives back the items
\* passed plus exactly wts (the clock) and w_rid; the items other than
\* w_rid stand in ascending order of their names and w_rid is the digest of
\* their URL encoding followed by the mixin key; and all calls with the same
\* mapping and keys, in whatever insertion order the mapping was built and
\* whether or not an earlier call left wts in it, return the same w_rid and
\* the same mapping.
C12_Reproducible ==
  /\ \A c \in 1..Len(souts) :
       LET call == souts[c]
           out == call.ret.params
       IN  ~call.ret.exc =>
             /\ Len(out) = Cardinality(ItemsBut(call.passed, K_wts)) + 2
             /\ ItemsBut(out, K_w_rid) =
                  ItemsBut(call.passed, K_wts) \cup {<<K_wts, IntValue(stime)>>}
             /\ out[Len(out)] = <<K_w_rid, StrValue(call.ret.w_rid)>>
             /\ \A i \in 1..(Len(out) - 2) : StrLess(out[i][1], out[i + 1][1])
             /\ call.ret.w_rid =
                  hexdigest(urlencode(ButLast(out)) \o get_mixin_key(simg \o ssub).key)
  /\ \A c, d \in 1..Len(souts) :
       (~souts[c].ret.exc /\ ~souts[d].ret.exc) =>
         /\ souts[c].ret.w_rid = souts[d].ret.w_rid
         /\ souts[c].ret.params = souts[d].ret.params

\* C12: two calls have returned whose dicts held the same items, two or
\* more, in different insertion orders
C12_Witness ==
  /\ Len(souts) = 2
  /\ ~souts[1].ret.exc
  /\ ~souts[2].ret.exc
  /\ Len(souts[1].passed) >= 2
  /\ ItemsBut(souts[1].passed, K_wts) = ItemsBut(souts[2].passed, K_wts)
  /\ \E i \in 1..Len(souts[1].passed) : souts[1].passed[i] # souts[2].passed[i]
  /\ souts[1].ret.w_rid = souts[2].ret.w_rid

----------------------------------------------------------------------------
\* Properties of the merged collection

\* C13 as stated: when merge_with_existing has returned, every item of every
\* category, fresh or from the snapshot, is dated later than
\* now - MAX_AGE_DAYS
C13_AsStated ==
  MergeReturned =>
    \A c \in Categories : \A k \in 1..Len(news[c].items) : Young(news[c].items[k])

\* the list of category c is in descending order of the instants: of two
\* adjacent dated items the first was published no earlier than the second
DescendingInstants(c) ==
  \A k \in 1..(Len(news[c].items) - 1) :
    LET a == news[c].items[k]
        b == news[c].items[k + 1]
    IN  (Parses(a.published) /\ Parses(b.published)) =>
          Instant(a.published) >= Instant(b.published)

\* no fresh item that the merge left out is younger than an item it kept
CutAreOldest(c) ==
  \A i \in 1..Len(fresh[c].items) : \A k \in 1..Len(news[c].items) :
    LET out == fresh[c].items[i]
        in == news[c].items[k]
    IN  (~Kept(c, out) /\ Parses(out.published) /\ Parses(in.published)) =>
          Instant(out.published) <= Instant(in.published)

\* C14 as stated: when merge_with_existing has read a snapshot and
\* returned, each category's list is in descending order of the instants of
\* publication, whatever offsets and spellings the `published` strings use,
\* and the items cut by the truncation are the oldest
C14_AsStated ==
  (MergeReturned /\ file.k = "ok") =>
    \A c \in Categories : DescendingInstants(c) /\ CutAreOldest(c)

----------------------------------------------------------------------------
\* Properties of the reduce step

\* the list is in ascending order of priority
AscendingPriority(l) ==
  \A i \in 1..(Len(l) - 1) : l[i].priority <= l[i + 1].priority

\* within a priority, the dated items are in descending order of their
\* instants
DescendingWithinPriority(l) ==
  \A i, j \in 1..Len(l) :
    (i < j /\ l[i].priority = l[j].priority
       /\ Parses(l[i].published) /\ Parses(l[j].published)) =>
      Instant(l[i].published) >= Instant(l[j].published)

\* no item whose date does not parse stands before a dated item of its
\* priority
UndatedLast(l) ==
  \A i, j \in 1..Len(l) :
    (i < j /\ l[i].priority = l[j].priority /\ ~Parses(l[i].published)) =>
      ~Parses(l[j].published)

\* C15 as stated: after the sort of fetch_all_news every category is in
\* ascending order of priority, within a priority in descending order of
\* the publication instants, and an item whose `published` does not parse
\* never stands before a dated item of its priority
C15_AsStated ==
  pc = "fetched" =>
    \A c \in Categories :
      /\ AscendingPriority(fresh[c].items)
      /\ DescendingWithinPriority(fresh[c].items)
      /\ UndatedLast(fresh[c].items)

\* some id occurs twice in the list
RepeatsAnId(l) == \E i, j \in 1..Len(l) : i < j /\ l[i].id = l[j].id

\* C18: the dedupe/sort/truncate step applied to its own output, and
\* applied to the gathered items with every item repeated, gives the items
\* and the order that applying it once to the gathered items gives
C18_Idempotent ==
  pc \in {"again", "repeated"} => news = fresh

\* C18: the step was applied to a list that repeats every item of a batch
\* which itself held an id twice, and two or more items came out
C18_Witness ==
  /\ pc = "repeated"
  /\ \E c \in Categories :
       /\ RepeatsAnId(raw[c])
       /\ Len(news[c].items) >= 2
       /\ news[c] = fresh[c]

----------------------------------------------------------------------------
\* Properties of the ids

\* no two items of the list have the same id
NoSharedId(l) ==
  \A i, j \in 1..Len(l) : i < j => IdKey(l[i]) # IdKey(l[j])

\* the item is, of the gathered items of category c that have its id, the
\* first in fetch order
FirstFetched(c, item) ==
  \E i \in 1..Len(raw[c]) :
    /\ raw[c][i] = item
    /\ \A j \in 1..(i - 1) : raw[c][j].id # item.id

\* C16: after the dedupe step of fetch_all_news and after
\* merge_with_existing no category holds two items of one id, and every
\* item that the dedupe step let through is the first of its id in fetch
\* order
C16_UniqueIds ==
  \A c \in Categories :
    /\ NoSharedId(fresh[c].items)
    /\ NoSharedId(news[c].items)
    /\ \A k \in 1..Len(fresh[c].items) : FirstFetched(c, fresh[c].items[k])

\* C16: the batch held an id twice, the snapshot held an entry of a fresh
\* id, and merge_with_existing returned two or more items
C16_Witness ==
  /\ MergeReturned
  /\ file.k = "ok"
  /\ \E c \in DOMAIN file.cats :
       /\ RepeatsAnId(raw[c])
       /\ \E i \in 1..Len(file.cats[c].items) : IdInFresh(c, file.cats[c].items[i])
       /\ Len(news[c].items) >= 2

----------------------------------------------------------------------------
\* Properties of a collision of ids

\* the fresh item of category c that has the id of `item`
FreshOf(c, item) ==
  fresh[c].items[CHOOSE k \in 1..Len(fresh[c].items) :
                   IdKey(fresh[c].items[k]) = IdKey(item)]

\* the entries of the snapshot's list for category c
Stored(c) == {file.cats[c].items[i] : i \in 1..Len(file.cats[c].items)}

\* C17 as stated: when merge_with_existing has read a snapshot and
\* returned, for every id that a fresh item and an entry of the snapshot
\* share the merged category holds the fresh item and does not hold the
\* entry of the snapshot
C17_AsStated ==
  (MergeReturned /\ file.k = "ok") =>
    \A c \in DOMAIN file.cats : \A old \in Stored(c) :
      (IdFault(old) = "" /\ IdInFresh(c, old)) =>
        /\ Kept(c, FreshOf(c, old))
        /\ old # FreshOf(c, old) => ~Kept(c, old)

\* C17: when merge_with_existing has read a snapshot and returned, every
\* item of the merged category whose id a fresh item has is that fresh
\* item, and a fresh item is in the merged category unless the cut to
\* MAX_ITEMS_PER_CATEGORY took place; the date of an entry of the snapshot
\* whose id a fresh item has is not read: when the call raises, the snapshot
\* holds an entry with a faulty id, or an entry of an id that no fresh item
\* has whose `published` is no string
C17_FreshWins ==
  /\ (MergeReturned /\ file.k = "ok") =>
       \A c \in DOMAIN file.cats :
         /\ \A k \in 1..Len(news[c].items) :
              IdInFresh(c, news[c].items[k]) => news[c].items[k] = FreshOf(c, news[c].items[k])
         /\ \A k \in 1..Len(fresh[c].items) :
              Kept(c, fresh[c].items[k]) \/ Len(news[c].items) = MAX_ITEMS_PER_CATEGORY
  /\ (MergeRaised /\ file.k = "ok") =>
       \E c \in DOMAIN file.cats : \E old \in Stored(c) :
         \/ IdFault(old) # ""
         \/ ~IdInFresh(c, old) /\ old.published.k = "nonstring"

\* C17: merge_with_existing has returned the fresh item of an id that the
\* snapshot held too, with other content and a `published` that is no
\* string
C17_Witness ==
  /\ MergeReturned
  /\ file.k = "ok"
  /\ \E c \in DOMAIN file.cats : \E old \in Stored(c) :
       /\ IdFault(old) = ""
       /\ IdInFresh(c, old)
       /\ old.published.k = "nonstring"
       /\ old # FreshOf(c, old)
       /\ Kept(c, FreshOf(c, old))

====
